---- MODULE Spec2Model ----
(***************************************************************************)
(* A model of deploy.py: the command-line entry point, load_env and        *)
(* deploy_contract, run by a shell against a file system, a wall clock and  *)
(* an external `forge` tool.                                               *)
(*                                                                         *)
(* Text is modelled as a sequence of symbols.  A symbol is one character   *)
(* ("=", " ", "\n") or an identifier-like run of characters that holds no   *)
(* whitespace and no "=" ("RPC_URL", "u"); str.strip and str.split only    *)
(* look at whitespace and "=", so they act on symbols as on characters.    *)
(* A log file is the sequence of the strings handed to log_file.write.     *)
(***************************************************************************)
EXTENDS Integers, Sequences, FiniteSets, TLC

VARIABLES
    files,        \* file system: path |-> content, for the files that exist
    dirs,         \* file system: the directories that exist
    shellEnv,     \* environment the invoking shell hands to each process
    forgeOnPath,  \* whether a `forge` executable is found on PATH
    clock,        \* the last wall-clock reading, in ticks
    runsLeft,     \* invocations the shell may still start
    pc,           \* the process's position
    sys_argv,     \* sys.argv
    environ,      \* os.environ of the process
    f,            \* load_env: the lines the file iterator has yet to yield
    cmd,          \* deploy_contract: the command list
    result,       \* deploy_contract: what subprocess.run returned
    log_file_name,\* deploy_contract: the log file's path
    console,      \* what the process printed
    exitStatus,   \* the process's exit status, once exited
    error,        \* why the process ended: none, a sys.exit or the exception
    spawned,      \* history: this process launched the forge child
    atStart,      \* history: the file system when this process started
    runs          \* history: one record per log written, in order

vars == <<files, dirs, shellEnv, forgeOnPath, clock, runsLeft, pc, sys_argv,
          environ, f, cmd, result, log_file_name, console, exitStatus, error,
          spawned, atStart, runs>>

world == <<shellEnv, forgeOnPath>>
locals == <<f, cmd, result, log_file_name>>
history == <<spawned, atStart, runs>>

----------------------------------------------------------------------------
(* Bounds *)

MaxFileLen == 6        \* symbols in a configuration file (SpecLoad)
MaxClock == 3          \* last tick of the wall clock
TicksPerSecond == 2    \* clock ticks in one second of strftime's %S
MaxRuns == 2           \* invocations in a row (SpecRuns)

----------------------------------------------------------------------------
(* Text *)

Whitespace == {" ", "\n"}

Chars == {"RPC_URL", "=", " ", "\n"}

Texts == UNION {[1..n -> Chars] : n \in 0..MaxFileLen}

Range(s) == {s[i] : i \in 1..Len(s)}

\* the index of the first c in s, 0 when there is none
RECURSIVE Find(_, _)
Find(s, c) ==
    IF s = <<>> THEN 0
    ELSE IF Head(s) = c THEN 1
    ELSE LET i == Find(Tail(s), c) IN IF i = 0 THEN 0 ELSE i + 1

\* the index of the last c in s, 0 when there is none
RECURSIVE FindLast(_, _)
FindLast(s, c) ==
    IF s = <<>> THEN 0
    ELSE IF s[Len(s)] = c THEN Len(s)
    ELSE FindLast(SubSeq(s, 1, Len(s) - 1), c)

RECURSIVE LStrip(_)
LStrip(s) == IF s # <<>> /\ Head(s) \in Whitespace THEN LStrip(Tail(s)) ELSE s

RECURSIVE RStrip(_)
RStrip(s) ==
    IF s # <<>> /\ s[Len(s)] \in Whitespace
    THEN RStrip(SubSeq(s, 1, Len(s) - 1))
    ELSE s

\* line.strip()
Strip(s) == RStrip(LStrip(s))

\* mutant of SplitFirst: s.rsplit("=", 1)
SplitLast(s) ==
    LET i == FindLast(s, "=") IN <<SubSeq(s, 1, i - 1), SubSeq(s, i + 1, Len(s))>>

\* s.split("=", 1), for s holding an "="
SplitFirst(s) ==
    LET i == Find(s, "=") IN <<SubSeq(s, 1, i - 1), SubSeq(s, i + 1, Len(s))>>

\* `for line in f`: the lines of a text, each with its newline
RECURSIVE SplitLines(_)
SplitLines(text) ==
    IF text = <<>> THEN <<>>
    ELSE LET i == Find(text, "\n") IN
         IF i = 0 THEN <<text>>
         ELSE <<SubSeq(text, 1, i)>> \o SplitLines(SubSeq(text, i + 1, Len(text)))

----------------------------------------------------------------------------
(* The environment *)

\* os.getenv's result for a variable that is not set
None == <<"<None>">>

RPC_URL == <<"RPC_URL">>
ETHERSCAN_API_KEY == <<"ETHERSCAN_API_KEY">>
VERIFIER_URL == <<"VERIFIER_URL">>

RequiredKeys == {RPC_URL, ETHERSCAN_API_KEY, VERIFIER_URL}

\* mutant of Setenv: os.environ.setdefault(key, value)
SetenvDefault(env, key, value) ==
    [k \in DOMAIN env \cup {key} |-> IF k \in DOMAIN env THEN env[k] ELSE value]

\* os.environ[key] = value
Setenv(env, key, value) ==
    [k \in DOMAIN env \cup {key} |-> IF k = key THEN value ELSE env[k]]

\* os.getenv(key)
Getenv(env, key) == IF key \in DOMAIN env THEN env[key] ELSE None

EmptyEnv == [k \in {} |-> <<>>]

----------------------------------------------------------------------------
(* Names and contents *)

Networks == {"mainnet", "testnet"}

log_dir == ".deployment_logs"

EnvFileName(network_name) == ".env." \o network_name

\* datetime.now().strftime('%Y-%m-%d_%H-%M-%S'): the clock cut to the second
strftime(t) == ToString(t \div TicksPerSecond)

\* mutant of LogFileName: the name without the timestamp
LogFileNameNoStamp(network_name, t) ==
    log_dir \o "/deployment_log_" \o network_name \o ".txt"

LogFileName(network_name, t) ==
    log_dir \o "/deployment_log_" \o network_name \o "_" \o strftime(t) \o ".txt"

NoResult == [stdout |-> "", stderr |-> "", returncode |-> -1]

Stdouts == {"", "Script ran successfully.\n"}
Stderrs == {"", "Error: deployment failed\n"}
ReturnCodes == {0, 1}

\* mutant of LogContent: the "Errors:" section written whatever stderr holds
LogContentAlwaysErrors(network_name, t, res) ==
    << "Deployment Date: " \o ToString(t) \o "\n",
       "Network: " \o network_name \o "\n",
       "Deployment Output:\n",
       res.stdout,
       "\nErrors:\n",
       res.stderr >>

\* the strings written to the log file, in order
LogContent(network_name, t, res) ==
    << "Deployment Date: " \o ToString(t) \o "\n",
       "Network: " \o network_name \o "\n",
       "Deployment Output:\n",
       res.stdout >>
    \o (IF res.stderr # "" THEN << "\nErrors:\n", res.stderr >> ELSE <<>>)

Command(env) ==
    << <<"forge">>, <<"script">>, <<"script/deploy.s.sol:DeployTaxiSwapMessenger">>,
       <<"--rpc-url">>, Getenv(env, RPC_URL),
       <<"--etherscan-api-key">>, Getenv(env, ETHERSCAN_API_KEY),
       <<"--verifier-url">>, Getenv(env, VERIFIER_URL),
       <<"--broadcast">>, <<"--verify">>, <<"-vvvv">> >>

WriteFile(fs, path, content) ==
    [p \in DOMAIN fs \cup {path} |-> IF p = path THEN content ELSE fs[p]]

----------------------------------------------------------------------------
(* The process *)

ArgLists ==
    {<<>>} \cup {<<n>> : n \in Networks} \cup {<<"mainnet", "testnet">>}

network_name == sys_argv[2]

\* sys.exit(status), or an uncaught exception ending the interpreter
Exit(status, why) ==
    /\ pc' = "exited"
    /\ exitStatus' = status
    /\ error' = why

\* the shell runs `python deploy.py <args>`
Start ==
    /\ pc \in {"idle", "exited"}
    /\ runsLeft > 0
    /\ runsLeft' = runsLeft - 1
    /\ \E args \in ArgLists : sys_argv' = <<"deploy.py">> \o args
    /\ environ' = shellEnv
    /\ f' = <<>>
    /\ cmd' = <<>>
    /\ result' = NoResult
    /\ log_file_name' = ""
    /\ console' = <<>>
    /\ exitStatus' = -1
    /\ error' = "none"
    /\ spawned' = FALSE
    /\ atStart' = [files |-> files, dirs |-> dirs]
    /\ pc' = "main"
    /\ UNCHANGED <<files, dirs, world, clock, runs>>

\* mutant of Main: the argument check written `len(sys.argv) < 2`
MainAtLeastOne ==
    /\ pc = "main"
    /\ IF Len(sys_argv) < 2
       THEN /\ console' = Append(console, "Usage: python deploy.py <network_name>")
            /\ Exit(1, "usage")
       ELSE /\ pc' = "load_env"
            /\ UNCHANGED <<console, exitStatus, error>>
    /\ UNCHANGED <<files, dirs, world, clock, runsLeft, sys_argv, environ,
                   locals, history>>

\* __main__: the argument check
Main ==
    /\ pc = "main"
    /\ IF Len(sys_argv) # 2
       THEN /\ console' = Append(console, "Usage: python deploy.py <network_name>")
            /\ Exit(1, "usage")
       ELSE /\ pc' = "load_env"
            /\ UNCHANGED <<console, exitStatus, error>>
    /\ UNCHANGED <<files, dirs, world, clock, runsLeft, sys_argv, environ,
                   locals, history>>

\* mutant of LoadEnvOpen: a missing file reported, and the run goes on
LoadEnvOpenNoExit ==
    /\ pc = "load_env"
    /\ IF EnvFileName(network_name) \notin DOMAIN files
       THEN /\ console' = Append(console, "Configuration file for "
                                   \o network_name \o " does not exist.")
            /\ pc' = "deploy_contract"
            /\ UNCHANGED <<f, exitStatus, error>>
       ELSE /\ f' = SplitLines(files[EnvFileName(network_name)])
            /\ pc' = "for_line"
            /\ UNCHANGED <<console, exitStatus, error>>
    /\ UNCHANGED <<files, dirs, world, clock, runsLeft, sys_argv, environ,
                   cmd, result, log_file_name, history>>

\* load_env: the existence check and open(env_file)
LoadEnvOpen ==
    /\ pc = "load_env"
    /\ IF EnvFileName(network_name) \notin DOMAIN files
       THEN /\ console' = Append(console, "Configuration file for "
                                   \o network_name \o " does not exist.")
            /\ Exit(1, "no_config")
            /\ UNCHANGED f
       ELSE /\ f' = SplitLines(files[EnvFileName(network_name)])
            /\ pc' = "for_line"
            /\ UNCHANGED <<console, exitStatus, error>>
    /\ UNCHANGED <<files, dirs, world, clock, runsLeft, sys_argv, environ,
                   cmd, result, log_file_name, history>>

\* load_env: one turn of `for line in f`, or its end and the return
LoadEnvLine ==
    /\ pc = "for_line"
    /\ IF f = <<>>
       THEN /\ pc' = "deploy_contract"
            /\ UNCHANGED <<f, environ, exitStatus, error>>
       ELSE LET line == Head(f)
                kv == SplitFirst(Strip(line))
            IN  IF "=" \notin Range(line)
                THEN /\ f' = Tail(f)
                     /\ UNCHANGED <<pc, environ, exitStatus, error>>
                ELSE IF kv[1] = <<>>
                THEN \* os.environ[""] = value raises OSError(EINVAL)
                     /\ Exit(1, "OSError")
                     /\ UNCHANGED <<f, environ>>
                ELSE /\ environ' = Setenv(environ, kv[1], kv[2])
                     /\ f' = Tail(f)
                     /\ UNCHANGED <<pc, exitStatus, error>>
    /\ UNCHANGED <<files, dirs, world, clock, runsLeft, sys_argv, cmd, result,
                   log_file_name, console, history>>

\* mutant of DeployContractRun: the log directory made before the tool is run
DeployContractRunLogDirFirst ==
    /\ pc = "deploy_contract"
    /\ console' = Append(console, "Starting deployment to " \o network_name)
    /\ cmd' = Command(environ)
    /\ dirs' = dirs \cup {log_dir}
    /\ IF None \in Range(Command(environ))
       THEN Exit(1, "TypeError") /\ UNCHANGED spawned
       ELSE IF ~forgeOnPath
       THEN Exit(1, "FileNotFoundError") /\ UNCHANGED spawned
       ELSE /\ spawned' = TRUE
            /\ pc' = "subprocess.run"
            /\ UNCHANGED <<exitStatus, error>>
    /\ UNCHANGED <<files, world, clock, runsLeft, sys_argv, environ, f,
                   result, log_file_name, atStart, runs>>

\* deploy_contract: the command list and the call of subprocess.run
DeployContractRun ==
    /\ pc = "deploy_contract"
    /\ console' = Append(console, "Starting deployment to " \o network_name)
    /\ cmd' = Command(environ)
    /\ IF None \in Range(Command(environ))
       THEN \* an argument that is None: TypeError before any child is made
            Exit(1, "TypeError") /\ UNCHANGED spawned
       ELSE IF ~forgeOnPath
       THEN Exit(1, "FileNotFoundError") /\ UNCHANGED spawned
       ELSE /\ spawned' = TRUE
            /\ pc' = "subprocess.run"
            /\ UNCHANGED <<exitStatus, error>>
    /\ UNCHANGED <<files, dirs, world, clock, runsLeft, sys_argv, environ, f,
                   result, log_file_name, atStart, runs>>

\* the forge child exits and subprocess.run returns what it captured
SubprocessReturn ==
    /\ pc = "subprocess.run"
    /\ \E out \in Stdouts, err \in Stderrs, rc \in ReturnCodes :
          result' = [stdout |-> out, stderr |-> err, returncode |-> rc]
    /\ pc' = "log_dir"
    /\ UNCHANGED <<files, dirs, world, clock, runsLeft, sys_argv, environ, f,
                   cmd, log_file_name, console, exitStatus, error, history>>

\* deploy_contract: the log directory is made unless it exists
MakeLogDir ==
    /\ pc = "log_dir"
    /\ dirs' = IF log_dir \notin dirs THEN dirs \cup {log_dir} ELSE dirs
    /\ pc' = "open_log"
    /\ UNCHANGED <<files, world, clock, runsLeft, sys_argv, environ, locals,
                   console, exitStatus, error, history>>

\* deploy_contract: the log file named, opened for writing, written and closed;
\* the clock is read for the name and again for the date line
WriteLog ==
    /\ pc = "open_log"
    /\ \E t1 \in clock..MaxClock : \E t2 \in t1..MaxClock :
          LET name == LogFileName(network_name, t1)
              content == LogContent(network_name, t2, result)
          IN  /\ log_file_name' = name
              /\ files' = WriteFile(files, name, content)
              /\ clock' = t2
              /\ runs' = Append(runs, [network |-> network_name,
                                       stamp |-> t1 \div TicksPerSecond,
                                       name |-> name,
                                       content |-> content])
    /\ pc' = "print_done"
    /\ UNCHANGED <<dirs, world, runsLeft, sys_argv, environ, f, cmd, result,
                   console, exitStatus, error, spawned, atStart>>

\* mutant of DeployContractDone: the script exits with the tool's return code
DeployContractDoneReturnCode ==
    /\ pc = "print_done"
    /\ console' = Append(console, "Deployment output and logs written to "
                                  \o log_file_name)
    /\ Exit(result.returncode, "none")
    /\ UNCHANGED <<files, dirs, world, clock, runsLeft, sys_argv, environ,
                   locals, history>>

\* deploy_contract: the last print; the script ends
DeployContractDone ==
    /\ pc = "print_done"
    /\ console' = Append(console, "Deployment output and logs written to "
                                  \o log_file_name)
    /\ Exit(0, "none")
    /\ UNCHANGED <<files, dirs, world, clock, runsLeft, sys_argv, environ,
                   locals, history>>

----------------------------------------------------------------------------
(* Specifications *)

CompleteConfig ==
    << "RPC_URL", "=", "u", "\n",
       "ETHERSCAN_API_KEY", "=", "k", "\n",
       "VERIFIER_URL", "=", "v", "\n" >>

\* the configuration files of Spec
ConfigFiles ==
    { CompleteConfig,
      \* two of the three keys
      << "RPC_URL", "=", "u", "\n", "ETHERSCAN_API_KEY", "=", "k", "\n" >>,
      \* a comment, a blank line, a key given twice, an "=" in a value
      << "#", " ", "comment", "\n", "\n",
         "RPC_URL", "=", "old", "\n", "RPC_URL", "=", "u", "=", "1", "\n",
         "VERIFIER_URL", "=", "v" >>,
      \* blanks around the "="
      << "RPC_URL", " ", "=", " ", "u", "\n", " ", "VERIFIER_URL", "=", "v", " ", "\n" >>,
      \* a line with no key
      << "RPC_URL", "=", "u", "\n", "=", "x", "\n" >>,
      <<>> }

InheritedEnvs == {[k \in S |-> <<"inherited">>] : S \in SUBSET RequiredKeys}

InitProcess ==
    /\ pc = "idle"
    /\ sys_argv = <<>>
    /\ environ = EmptyEnv
    /\ f = <<>>
    /\ cmd = <<>>
    /\ result = NoResult
    /\ log_file_name = ""
    /\ console = <<>>
    /\ exitStatus = -1
    /\ error = "none"
    /\ spawned = FALSE
    /\ atStart = [files |-> files, dirs |-> dirs]
    /\ runs = <<>>
    /\ clock = 0

\* one invocation, in any of the modelled worlds
Init ==
    /\ \E c \in ConfigFiles : files = (EnvFileName("mainnet") :> c)
    /\ dirs \in {{}, {log_dir}}
    /\ shellEnv \in InheritedEnvs
    /\ forgeOnPath \in BOOLEAN
    /\ runsLeft = 1
    /\ InitProcess

\* invocations in a row, every network configured and the tool installed
InitRuns ==
    /\ files = [p \in {EnvFileName(n) : n \in Networks} |-> CompleteConfig]
    /\ dirs = {}
    /\ shellEnv = EmptyEnv
    /\ forgeOnPath = TRUE
    /\ runsLeft = MaxRuns
    /\ InitProcess

\* one invocation, over every configuration text up to MaxFileLen symbols
InitLoad ==
    /\ \E c \in Texts : files = (EnvFileName("mainnet") :> c)
    /\ dirs = {}
    /\ shellEnv \in {EmptyEnv, (RPC_URL :> <<"inherited">>)}
    /\ forgeOnPath = TRUE
    /\ runsLeft = 1
    /\ InitProcess

Next ==
    \/ Start
    \/ Main
    \/ LoadEnvOpen
    \/ LoadEnvLine
    \/ DeployContractRun
    \/ SubprocessReturn
    \/ MakeLogDir
    \/ WriteLog
    \/ DeployContractDone

\* the program up to load_env's return
NextLoad ==
    \/ Start
    \/ Main
    \/ LoadEnvOpen
    \/ LoadEnvLine

Spec == Init /\ [][Next]_vars

SpecRuns == InitRuns /\ [][Next]_vars

SpecLoad == InitLoad /\ [][NextLoad]_vars

----------------------------------------------------------------------------
(* Properties *)

Max(S) == CHOOSE x \in S : \A y \in S : y <= x
Min(S) == CHOOSE x \in S : \A y \in S : x <= y

InProcess == pc # "idle"
OneArgument == InProcess /\ Len(sys_argv) = 2
ConfigExists == OneArgument /\ EnvFileName(sys_argv[2]) \in DOMAIN atStart.files
ConfigLines == SplitLines(files[EnvFileName(sys_argv[2])])
FileSystemUntouched == files = atStart.files /\ dirs = atStart.dirs
NewFiles == DOMAIN files \ DOMAIN atStart.files

\* what the properties take a line to mean, stated without the model's parser
HasSeparator(line) == \E i \in 1..Len(line) : line[i] = "="
FirstSeparator(s) ==
    CHOOSE i \in 1..Len(s) : s[i] = "=" /\ \A j \in 1..(i - 1) : s[j] # "="
Trimmed(s) ==
    LET solid == {i \in 1..Len(s) : s[i] \notin Whitespace}
    IN  IF solid = {} THEN <<>> ELSE SubSeq(s, Min(solid), Max(solid))
\* the trimmed line cut at its first "="
KeyOf(line) == SubSeq(Trimmed(line), 1, FirstSeparator(Trimmed(line)) - 1)
ValueOf(line) ==
    SubSeq(Trimmed(line), FirstSeparator(Trimmed(line)) + 1, Len(Trimmed(line)))
\* the line cut at its first "=", each part trimmed
TrimmedKeyOf(line) == Trimmed(SubSeq(line, 1, FirstSeparator(line) - 1))
TrimmedValueOf(line) ==
    Trimmed(SubSeq(line, FirstSeparator(line) + 1, Len(line)))

\* the environment after the lines: the last line giving a key decides its
\* value, a key no line gives keeps the inherited value
ExpectedEnv(K(_), V(_)) ==
    LET L == ConfigLines
        given == {i \in 1..Len(L) : HasSeparator(L[i])}
        keys == {K(L[i]) : i \in given}
    IN  [k \in DOMAIN shellEnv \cup keys |->
            IF k \in keys
            THEN V(L[Max({i \in given : K(L[i]) = k})])
            ELSE shellEnv[k]]

\* C1: in a run whose configuration file .env.<network> is absent the process
\* only reaches the argument check and load_env's existence check, can always
\* take its next step until it has exited, exits with a non-zero status,
\* never launches forge and leaves files and directories as it found them.
C1_MissingConfig ==
    (OneArgument /\ ~ConfigExists) =>
        /\ pc \in {"main", "load_env", "exited"}
        /\ (pc # "exited" => ENABLED (Main \/ LoadEnvOpen))
        /\ (pc = "exited" => exitStatus # 0 /\ error = "no_config")
        /\ ~spawned
        /\ cmd = <<>>
        /\ FileSystemUntouched

C1_Witness ==
    /\ OneArgument /\ ~ConfigExists
    /\ pc = "exited" /\ exitStatus = 1
    /\ log_dir \notin dirs

\* C2 (as claimed, for a run in which forge is installed and load_env
\* returned): a run with one argument and an existing configuration file ends
\* with exactly one new file, the log named for the network, holding the
\* network line and the captured standard output.
C2_OneLogPerRun ==
    (pc = "exited" /\ ConfigExists /\ forgeOnPath /\ error # "OSError") =>
        /\ Cardinality(NewFiles) = 1
        /\ \E t \in 0..MaxClock : NewFiles = {LogFileName(sys_argv[2], t)}
        /\ \A p \in NewFiles :
              /\ files[p][2] = "Network: " \o sys_argv[2] \o "\n"
              /\ files[p][4] = result.stdout

\* C3 (as claimed): every run that wrote a log has a log file of its own, and
\* each of them still holds what its run wrote.
C3_NeverOverwritten ==
    /\ Cardinality({runs[i].name : i \in 1..Len(runs)}) = Len(runs)
    /\ \A i \in 1..Len(runs) :
          runs[i].name \in DOMAIN files /\ files[runs[i].name] = runs[i].content

SameNetworkAndSecond(r1, r2) ==
    r1.network = r2.network /\ r1.stamp = r2.stamp

\* C3 (amended): two runs that named their logs for different networks or in
\* different clock seconds wrote two distinct files; a run's log still holds
\* what that run wrote unless a later run for the same network named its log
\* within the same second, and then the two share one name and the file
\* holds what the later run wrote.  No log file is ever removed.
C3_DistinctPerSecond ==
    /\ \A i \in 1..Len(runs) : \A j \in 1..Len(runs) :
          (runs[i].name = runs[j].name) <=> SameNetworkAndSecond(runs[i], runs[j])
    /\ \A i \in 1..Len(runs) :
          LET same == {j \in i..Len(runs) : SameNetworkAndSecond(runs[i], runs[j])}
          IN  /\ runs[i].name \in DOMAIN files
              /\ files[runs[i].name] = runs[Max(same)].content
    /\ DOMAIN atStart.files \subseteq DOMAIN files

C3_Witness ==
    /\ Len(runs) = 2
    /\ runs[1].network = runs[2].network
    /\ runs[1].stamp # runs[2].stamp
    /\ runs[1].content # runs[2].content
    /\ files[runs[1].name] = runs[1].content
    /\ files[runs[2].name] = runs[2].content

C5_MissingVariablePassedOn ==
    (pc = "exited" /\ cmd # <<>> /\ None \in Range(cmd) /\ forgeOnPath) =>
        /\ spawned
        /\ log_file_name \in DOMAIN files

LogWritten == pc \in {"print_done", "exited"} /\ log_file_name # ""

\* C6: the written log is the date line, the network line, the
\* "Deployment Output:" header and the captured standard output, in that
\* order, followed by the "Errors:" header and the captured standard error
\* exactly when the standard error is not empty.
C6_ErrorsSection ==
    LogWritten =>
        LET c == files[log_file_name] IN
        /\ Len(c) >= 4
        /\ c[1] = "Deployment Date: " \o ToString(clock) \o "\n"
        /\ c[2] = "Network: " \o sys_argv[2] \o "\n"
        /\ c[3] = "Deployment Output:\n"
        /\ c[4] = result.stdout
        /\ (result.stderr = "" => Len(c) = 4)
        /\ (result.stderr # "" =>
               Len(c) = 6 /\ c[5] = "\nErrors:\n" /\ c[6] = result.stderr)
        /\ (result.stderr # "" <=> \E i \in 1..Len(c) : c[i] = "\nErrors:\n")

C6_Witness ==
    /\ LogWritten
    /\ result.stderr = ""
    /\ result.stdout # ""
    /\ Len(files[log_file_name]) = 4

\* C7: a run whose argument count is not one only reaches the argument check,
\* exits with status 1 after the usage message, reads no configuration file,
\* leaves the environment as inherited, launches nothing and leaves files
\* and directories as it found them.
C7_UsageError ==
    (InProcess /\ Len(sys_argv) # 2) =>
        /\ pc \in {"main", "exited"}
        /\ (pc = "main" => ENABLED Main)
        /\ (pc = "exited" =>
               /\ exitStatus = 1 /\ error = "usage"
               /\ console = <<"Usage: python deploy.py <network_name>">>)
        /\ environ = shellEnv
        /\ f = <<>> /\ cmd = <<>>
        /\ ~spawned
        /\ FileSystemUntouched

C7_Witness ==
    /\ pc = "exited" /\ Len(sys_argv) = 3
    /\ error = "usage"
    /\ EnvFileName(sys_argv[2]) \in DOMAIN files

Returned == result # NoResult

\* C8: once subprocess.run has returned, whatever the return code, the run
\* only goes on to make the directory, write the log and print its path; it
\* ends with exit status 0 and no error, the log holding the captured output.
C8_ReturnCodeIgnored ==
    (InProcess /\ Returned) =>
        /\ pc \in {"log_dir", "open_log", "print_done", "exited"}
        /\ (pc = "exited" =>
               /\ exitStatus = 0 /\ error = "none"
               /\ log_file_name \in DOMAIN files
               /\ files[log_file_name] =
                     LogContent(sys_argv[2], clock,
                                [result EXCEPT !.returncode = 0])
               /\ console[Len(console)] =
                     "Deployment output and logs written to " \o log_file_name)

C8_Witness ==
    /\ pc = "exited" /\ Returned
    /\ result.returncode # 0
    /\ exitStatus = 0

\* C9: within a run the file system changes only after subprocess.run has
\* returned: a new or rewritten file or a new directory means forge was
\* launched and its output captured; a run that ends in the exception raised
\* by calling subprocess.run launched nothing and leaves no log file.
C9_LogAfterSubprocess ==
    InProcess =>
        /\ (~FileSystemUntouched => spawned /\ Returned)
        /\ (log_file_name # "" => spawned /\ Returned)
        /\ (pc = "exited" /\ error \in {"TypeError", "FileNotFoundError"} =>
               /\ exitStatus # 0
               /\ ~Returned
               /\ FileSystemUntouched)

C9_Witness ==
    /\ pc = "print_done"
    /\ log_file_name \in NewFiles
    /\ log_dir \notin atStart.dirs
    /\ spawned /\ Returned

CommandSlot(key) ==
    CASE key = RPC_URL -> 5
      [] key = ETHERSCAN_API_KEY -> 7
      [] key = VERIFIER_URL -> 9

\* C10: each of the three values in the forge command is the value of the
\* last configuration line that gives the key, else the value inherited from
\* the shell, else the unset placeholder; and all through the run a variable
\* whose key no line gives is held with its inherited value.
C10_InheritedFlow ==
    ConfigExists =>
        /\ cmd # <<>> =>
              \A key \in RequiredKeys :
                 cmd[CommandSlot(key)] =
                    Getenv(ExpectedEnv(KeyOf, ValueOf), key)
        /\ \A key \in DOMAIN shellEnv :
              (\A i \in 1..Len(ConfigLines) :
                  HasSeparator(ConfigLines[i]) => KeyOf(ConfigLines[i]) # key)
              => key \in DOMAIN environ /\ environ[key] = shellEnv[key]

C10_Witness ==
    /\ ConfigExists /\ spawned
    /\ cmd[CommandSlot(VERIFIER_URL)] = <<"inherited">>
    /\ RPC_URL \in DOMAIN shellEnv
    /\ cmd[CommandSlot(RPC_URL)] = <<"u">>

====
